---- MODULE Spec2Model ----
(***************************************************************************)
(* A model of src/src/simulator/simulator_bindings.cpp: the Python         *)
(* bindings check_for_occlusions, add_user_input_to_scene and magic_ponies *)
(* together with the helpers they call (buildUserInputObject,              *)
(* addUserInputToScene, getNumObjectsInScene, getNumObjects,               *)
(* hadSimulationOcclusions, renderAllObjectMasksTo) and the reference      *)
(* counting of the capsules and arrays through which magic_ponies hands    *)
(* its heap buffers to the caller.                                         *)
(*                                                                         *)
(* The collaborators that live outside the file (the thrift decoder,       *)
(* mergeUserInputIntoScene, simulateTask, render, renderTo,                *)
(* featurizeScene) are calls whose results are drawn from small sets.      *)
(***************************************************************************)
EXTENDS Integers, Sequences, FiniteSets, TLC

VARIABLES
  binding,                       \* which m.def lambda is running
  pc,                            \* position inside that lambda / magic_ponies
  outcome,                       \* "running", "returned", "validation_error", "fault"
  points,                        \* py::array_t<int32_t> points: [shape, rows]
  rectangulars_vertices_flatten, \* std::vector<float>
  balls_flatten,                 \* std::vector<float>
  user_input,                    \* UserInput built by buildUserInputObject
  oobRead,                       \* an operator[] read at an index >= size() happened
  scene,                         \* the Scene handed to addUserInputToScene (task.scene)
  mergeResult,                   \* what mergeUserInputIntoScene returned: [good, bodies]
  simulation,                    \* TaskSimulation: [isSolution, sceneList]
  need_images,
  need_featurized_objects,
  need_object_masks,
  numImagesTotal,
  numScenesTotal,
  imageSize,
  numSceneObjects,
  sceneIndex,                    \* frames already processed by the image loop
  heap,                          \* the three new[] buffers: [state, len, data, releases]
  oobWrite,                      \* a write outside its buffer happened
  maskWrites,                    \* per frame, the mask-buffer offsets written for it
  capsuleRefs,                   \* reference count of each py::capsule
  arrays,                        \* the three py::array_t results: [len, base, refs]
  result                         \* the scalars of the returned tuple

vars == <<binding, pc, outcome, points, rectangulars_vertices_flatten,
          balls_flatten, user_input, oobRead, scene, mergeResult, simulation,
          need_images, need_featurized_objects, need_object_masks,
          numImagesTotal, numScenesTotal, imageSize, numSceneObjects,
          sceneIndex, heap, oobWrite, maskWrites, capsuleRefs, arrays, result>>

NoValue == "none"

(***************************************************************************)
(* Bounds of the model.                                                    *)
(***************************************************************************)
MaxRectLen == 17     \* longest rectangulars_vertices_flatten
MaxBallsLen == 7     \* longest balls_flatten
MaxPoints == 2       \* most rows of a well-formed points matrix
MaxFrames == 2       \* most scenes in simulation.sceneList
MaxBodies == 1       \* most entries of a frame's bodies
MaxUserBodies == 1   \* most entries of a frame's user_input_bodies

(***************************************************************************)
(* Program constants.                                                      *)
(***************************************************************************)
RectStride == 8          \* i += 8
RectInnerBound == 4      \* j < 4
RectInnerStep == 2       \* j += 2
BallStride == 3          \* three i++ per circle
PointsRank == 2          \* points.ndim() != 2
PointsWidth == 2         \* points.shape(1) != 2
kObjectFeatureSize == 2  \* width of one object's feature vector; its value is set
                         \* in creator.h, the model takes a small one

RECURSIVE SeqsUpTo(_, _)
SeqsUpTo(S, n) ==
  IF n = 0 THEN {<<>>}
  ELSE LET shorter == SeqsUpTo(S, n - 1)
       IN  shorter \cup {Append(s, x) : s \in {t \in shorter : Len(t) = n - 1}, x \in S}

(***************************************************************************)
(* buildUserInputObject                                                    *)
(***************************************************************************)

\* A float vector whose element at (0-based) index i is base + i, so that every
\* position is recognisable in the output.
FloatVector(base, n) == [k \in 1..n |-> base + k - 1]

RectInputs(maxLen) == {FloatVector(100, n) : n \in 0..maxLen}
BallInputs(maxLen) == {FloatVector(200, m) : m \in 0..maxLen}

\* What a read past the end of a vector can yield.
GarbageFloats == {-1, -2}

\* points: the shape of the numpy array and, for a matrix, its rows.
PointsMatrix(n, w) ==
  [shape |-> <<n, w>>, rows |-> [r \in 1..n |-> [c \in 1..w |-> 10 * r + c]]]

PointsInputs(rowCounts) ==
  {PointsMatrix(n, PointsWidth) : n \in rowCounts}
    \cup {PointsMatrix(1, 1), PointsMatrix(1, 3)}
    \cup {[shape |-> <<2>>, rows |-> <<>>], [shape |-> <<1, 2, 1>>, rows |-> <<>>]}

\* A validation that checks the rank only.
PointsRankErrorOnly(p) ==
  IF Len(p.shape) # PointsRank THEN "Number of dimensions must be two" ELSE NoValue

\* The two throw statements at the head of buildUserInputObject.
PointsShapeError(p) ==
  IF Len(p.shape) # PointsRank THEN "Number of dimensions must be two"
  ELSE IF p.shape[2] # PointsWidth THEN "Second dimension must have size 2 (x, y)"
  ELSE NoValue

\* for (i = 0; i < points.shape(0); ++i) push_back(p(i,0)); push_back(p(i,1));
\* pointsUnchecked(i, c): no bounds check, so outside the row it is whatever is there.
PointAt(p, i, c) ==
  IF i < Len(p.rows) /\ c < Len(p.rows[i + 1]) THEN p.rows[i + 1][c + 1] ELSE -1

RECURSIVE FlattenPoints(_, _)
FlattenPoints(p, i) ==
  IF i < p.shape[1]
    THEN <<PointAt(p, i, 0), PointAt(p, i, 1)>> \o FlattenPoints(p, i + 1)
    ELSE <<>>

\* vec[idx] of a std::vector (idx 0-based): the element, or, past the end, whatever
\* memory holds there (g, the cells past the end).
At(vec, idx, g) ==
  IF idx < Len(vec) THEN vec[idx + 1]
  ELSE g[((idx - Len(vec)) % Len(g)) + 1]

getVector(x, y) == <<x, y>>

\* for (int j = 0; j < 4; j += 2) polygon.vertices.push_back(getVector(v[i+j], v[i+j+1]))
RECURSIVE PolygonVertices(_, _, _, _)
PolygonVertices(vec, i, j, g) ==
  IF j < RectInnerBound
    THEN <<getVector(At(vec, i + j, g), At(vec, i + j + 1, g))>>
           \o PolygonVertices(vec, i, j + RectInnerStep, g)
    ELSE <<>>

\* for (int i = 0; i < v.size(); i += 8) { ...; user_input.polygons.push_back(polygon); }
RECURSIVE BuildPolygons(_, _, _)
BuildPolygons(vec, i, g) ==
  IF i < Len(vec)
    THEN <<[vertices |-> PolygonVertices(vec, i, 0, g)]>>
           \o BuildPolygons(vec, i + RectStride, g)
    ELSE <<>>

\* The indices of rectangulars_vertices_flatten the polygon loops read.
RECURSIVE PolygonReads(_, _)
PolygonReads(n, i) ==
  IF i < n
    THEN {i + j + d : j \in {k \in 0..(RectInnerBound - 1) : k % RectInnerStep = 0},
                      d \in {0, 1}}
           \cup PolygonReads(n, i + RectStride)
    ELSE {}

\* for (int i = 0; i < b.size();) { x = b[i++]; y = b[i++]; radius = b[i++]; push_back }
RECURSIVE BuildBalls(_, _, _)
BuildBalls(vec, i, g) ==
  IF i < Len(vec)
    THEN <<[x |-> At(vec, i, g), y |-> At(vec, i + 1, g), radius |-> At(vec, i + 2, g)]>>
           \o BuildBalls(vec, i + BallStride, g)
    ELSE <<>>

RECURSIVE BallReads(_, _)
BallReads(m, i) ==
  IF i < m THEN {i, i + 1, i + 2} \cup BallReads(m, i + BallStride) ELSE {}

ReadsPastEnd(reads, n) == \E idx \in reads : idx >= n

\* Whether building from these two vectors reads past the end of either.
BuildReadsPastEnd(rect, balls) ==
  ReadsPastEnd(PolygonReads(Len(rect), 0) , Len(rect))
    \/ ReadsPastEnd(BallReads(Len(balls), 0), Len(balls))


(***************************************************************************)
(* Scenes, bodies and the external collaborators                           *)
(***************************************************************************)

NO_OCCLUSIONS == "NO_OCCLUSIONS"
HAD_OCCLUSIONS == "HAD_OCCLUSIONS"
UNDEFINED == "UNDEFINED"

\* A Body: its shape tag, its colour, and what the external rasterizer makes of a
\* scene holding it alone ("ok": width*height pixels; "short": another size).
Undef == [shapeType |-> UNDEFINED, color |-> 0, raster |-> "ok"]
BallA == [shapeType |-> "BALL", color |-> 1, raster |-> "ok"]
BallB == [shapeType |-> "BALL", color |-> 2, raster |-> "ok"]
Bad   == [shapeType |-> "POLYGON", color |-> 3, raster |-> "short"]

BodyKinds == {Undef, BallA, BallB, Bad}

MakeScene(w, h, b, u, s) ==
  [width |-> w, height |-> h, bodies |-> b, user_input_bodies |-> u,
   user_input_status |-> s]

\* The scene of a decoded Task, before any merge.
SceneDims == {<<1, 1>>, <<2, 1>>}
TaskScenes ==
  {MakeScene(d[1], d[2], <<BallA>>, u, s) :
     d \in SceneDims, u \in {<<>>, <<BallB>>}, s \in {NO_OCCLUSIONS, HAD_OCCLUSIONS}}

\* What mergeUserInputIntoScene can hand back: the flag and the new bodies.
MergeOutputs ==
  {[good |-> g, bodies |-> b] : g \in BOOLEAN, b \in {<<>>, <<BallB>>}}

\* The snapshots a simulated frame is drawn from: bodies, user_input_bodies and
\* status. They differ in how many bodies have a shape, mix UNDEFINED bodies into
\* either list and include bodies the rasterizer fails on.
FrameContents ==
  {<<<<>>, <<>>, NO_OCCLUSIONS>>,
   <<<<BallA>>, <<>>, HAD_OCCLUSIONS>>,
   <<<<Undef, BallA>>, <<BallB>>, NO_OCCLUSIONS>>,
   <<<<Bad, BallA>>, <<Undef>>, HAD_OCCLUSIONS>>,
   <<<<BallA>>, <<Undef, BallB>>, NO_OCCLUSIONS>>,
   <<<<BallB, BallA>>, <<Bad>>, HAD_OCCLUSIONS>>}

\* simulateTask: a solved flag and up to MaxFrames snapshots of the task's scene
\* (same width and height), each with its own body lists and status.
FrameScenes(w, h) == {MakeScene(w, h, c[1], c[2], c[3]) : c \in FrameContents}

Simulations(w, h) ==
  {[isSolution |-> sol, sceneList |-> fl] :
     sol \in BOOLEAN, fl \in SeqsUpTo(FrameScenes(w, h), MaxFrames)}

\* render(scene) for a scene of one body: an Image whose values are the body's
\* colour, width*height of them unless the rasterizer misbehaves.
render(singleObjectScene) ==
  LET body == singleObjectScene.bodies[1]
      n == singleObjectScene.width * singleObjectScene.height
  IN  [values |-> [k \in 1..(IF body.raster = "ok" THEN n ELSE n + 1) |-> body.color]]

\* renderTo(scene, ptr) writes width*height pixels; a pixel shows the number of
\* the scene's bodies that have a shape.
RECURSIVE CountShaped(_, _)
CountShaped(bodies, k) ==
  IF k > Len(bodies) THEN 0
  ELSE (IF bodies[k].shapeType # UNDEFINED THEN 1 ELSE 0) + CountShaped(bodies, k + 1)

renderToPixels(sc) ==
  [k \in 1..(sc.width * sc.height) |->
     CountShaped(sc.bodies, 1) + CountShaped(sc.user_input_bodies, 1)]

(***************************************************************************)
(* addUserInputToScene, getNumObjectsInScene, getNumObjects,               *)
(* hadSimulationOcclusions                                                 *)
(***************************************************************************)

\* good ? NO_OCCLUSIONS : HAD_OCCLUSIONS
UserInputStatusOf(good) == IF good THEN NO_OCCLUSIONS ELSE HAD_OCCLUSIONS

\* An addUserInputToScene that keeps the old user_input_bodies on occlusion.
addUserInputToSceneOnlyIfGood(sc, merged) ==
  [sc EXCEPT !.user_input_status = UserInputStatusOf(merged.good),
             !.user_input_bodies = IF merged.good THEN merged.bodies ELSE @]

\* The scene after addUserInputToScene, given what the merge returned.
addUserInputToScene(sc, merged) ==
  [sc EXCEPT !.user_input_status = UserInputStatusOf(merged.good),
             !.user_input_bodies = merged.bodies]

\* for (Body &body : bodies) if (body.shapeType != UNDEFINED) ++numObjects;
RECURSIVE CountLoop(_, _, _)
CountLoop(bodies, k, numObjects) ==
  IF k > Len(bodies) THEN numObjects
  ELSE CountLoop(bodies, k + 1,
                 IF bodies[k].shapeType # UNDEFINED THEN numObjects + 1 ELSE numObjects)

\* A count that forgets user_input_bodies.
getNumObjectsInBodiesOnly(sc) == CountLoop(sc.bodies, 1, 0)

getNumObjectsInScene(sc) == CountLoop(sc.bodies \o sc.user_input_bodies, 1, 0)

getNumObjects(sim) ==
  IF sim.sceneList = <<>> THEN 0 ELSE getNumObjectsInScene(sim.sceneList[1])

hadSimulationOcclusions(sim) ==
  IF sim.sceneList = <<>> THEN FALSE
  ELSE sim.sceneList[1].user_input_status = HAD_OCCLUSIONS

(***************************************************************************)
(* The heap buffers and renderAllObjectMasksTo                             *)
(***************************************************************************)

Buffers == {"images", "masks", "features"}
Uninit == -1     \* a cell of a new[] buffer nobody wrote yet

NoBuffer == [state |-> "none", len |-> 0, data |-> <<>>, releases |-> 0]
NewBuffer(n) == [state |-> "live", len |-> n, data |-> [k \in 1..n |-> Uninit], releases |-> 0]

\* The offsets (0-based) a write of n cells at off touches.
Region(off, n) == {o \in off..(off + n - 1) : TRUE}

\* data after writing vals at offset off; cells outside the buffer are not part of it.
WriteRegion(data, off, vals) ==
  [k \in 1..Len(data) |->
     IF off < k /\ k <= off + Len(vals) THEN vals[k - off] ELSE data[k]]

\* bufferStart + currentObjectIndex * imageSize
MaskOffset(bufferStart, currentObjectIndex, size) == bufferStart + currentObjectIndex * size

\* A renderSingleBody that advances the slot only after a copy.
NextObjectIndexOnCopyOnly(currentObjectIndex, sizeMatches) ==
  IF sizeMatches THEN currentObjectIndex + 1 ELSE currentObjectIndex

\* currentObjectIndex++ at the end of renderSingleBody.
NextObjectIndex(currentObjectIndex, sizeMatches) == currentObjectIndex + 1

\* The lambda renderSingleBody: st is [data, currentObjectIndex, written].
renderSingleBody(st, sc, body, bufferStart) ==
  LET size == sc.width * sc.height
      singleObjectScene == MakeScene(sc.width, sc.height, <<body>>, <<>>, NO_OCCLUSIONS)
      singleObjectImage == render(singleObjectScene)
      off == MaskOffset(bufferStart, st.currentObjectIndex, size)
      matches == Len(singleObjectImage.values) = size
      vals == IF matches THEN singleObjectImage.values ELSE [k \in 1..size |-> 0]
  IN  [data |-> WriteRegion(st.data, off, vals),
       currentObjectIndex |-> NextObjectIndex(st.currentObjectIndex, matches),
       written |-> st.written \cup Region(off, size)]

\* for (body : list) if (body.shapeType != UNDEFINED) renderSingleBody(body);
RECURSIVE RenderBodies(_, _, _, _, _)
RenderBodies(st, sc, list, k, bufferStart) ==
  IF k > Len(list) THEN st
  ELSE RenderBodies(IF list[k].shapeType # UNDEFINED
                      THEN renderSingleBody(st, sc, list[k], bufferStart)
                      ELSE st,
                    sc, list, k + 1, bufferStart)

\* renderAllObjectMasksTo(scene, bufferStart): the buffer's data afterwards and the
\* offsets written.
renderAllObjectMasksTo(sc, data, bufferStart) ==
  LET st0 == [data |-> data, currentObjectIndex |-> 0, written |-> {}]
      st1 == RenderBodies(st0, sc, sc.bodies, 1, bufferStart)
  IN  RenderBodies(st1, sc, sc.user_input_bodies, 1, bufferStart)

\* featurizeScene(scene, ptr) writes kObjectFeatureSize floats per shaped body.
featurizeWrites(sc) == [k \in 1..(kObjectFeatureSize * getNumObjectsInScene(sc)) |-> 7]

RECURSIVE FeaturizeLoop(_, _, _, _)
FeaturizeLoop(st, sceneList, k, objects) ==
  IF k > Len(sceneList) THEN st
  ELSE LET writeIndex == (k - 1) * kObjectFeatureSize * objects
           vals == featurizeWrites(sceneList[k])
       IN  FeaturizeLoop([data |-> WriteRegion(st.data, writeIndex, vals),
                          written |-> st.written \cup Region(writeIndex, Len(vals))],
                         sceneList, k + 1, objects)

OutOfBuffer(written, len) == \E o \in written : o < 0 \/ o >= len


(***************************************************************************)
(* Reference counting of capsules and arrays                               *)
(***************************************************************************)

ArrayNames == {"images", "masks", "features"}
NoBase == "no_base"
NoArray == [exists |-> FALSE, len |-> 0, data |-> NoBase, base |-> NoBase, refs |-> 0]

\* A magic_ponies that forgets the capsule of the mask buffer.
CapsuleBuffersWithoutMasks == {"images", "features"}

\* The buffers for which magic_ponies creates a capsule calling delete[].
CapsuleBuffers == {"images", "features", "masks"}

\* The buffer each returned array points into (NoBase: storage of its own).
ArrayData(name, needMasks) ==
  IF name = "masks" /\ ~needMasks THEN NoBase ELSE name

\* The capsule each returned array is constructed with as its base.
ArrayBase(name, needMasks) ==
  IF name = "masks" /\ ~needMasks THEN NoBase ELSE name

\* The references an array takes on the base it is constructed with.
BaseRefsTaken(name) == 1

\* shape of packedImagesArray
ImagesArrayLen(images, size) == images * size
\* A mask array shaped like the image array.
MasksArrayLenWithoutObjects(needMasks, images, objects, size) ==
  IF needMasks THEN images * size ELSE 0

\* shape of packedObjectMasksArray: the ternary of lines 267-270
MasksArrayLen(needMasks, images, objects, size) ==
  IF needMasks THEN images * objects * size ELSE 0
\* shape of packedObjectsArray
ObjectsArrayLen(scenes, objects) == scenes * objects * kObjectFeatureSize

\* Py_DECREF on the capsules in S: refs after, and the buffers whose destructor ran.
Released(refs, S) == {b \in S : refs[b] = 1}
DecRef(refs, S) == [b \in Buffers |-> IF b \in S /\ refs[b] > 0 THEN refs[b] - 1 ELSE refs[b]]
Free(h, S) ==
  [b \in Buffers |->
     IF b \in S THEN [h[b] EXCEPT !.state = "freed", !.releases = @ + 1] ELSE h[b]]

(***************************************************************************)
(* The bindings, step by step                                              *)
(***************************************************************************)

Unset ==
  /\ user_input = NoValue /\ oobRead = FALSE /\ mergeResult = NoValue
  /\ simulation = NoValue
  /\ numImagesTotal = 0 /\ numScenesTotal = 0 /\ imageSize = 0 /\ numSceneObjects = 0
  /\ sceneIndex = 0
  /\ heap = [b \in Buffers |-> NoBuffer]
  /\ oobWrite = FALSE /\ maskWrites = <<>>
  /\ capsuleRefs = [b \in Buffers |-> 0]
  /\ arrays = [a \in ArrayNames |-> NoArray]
  /\ result = NoValue
  /\ outcome = "running"

\* check_for_occlusions or magic_ponies is called.
Init ==
  /\ binding \in {"check_for_occlusions", "magic_ponies"}
  /\ pc = "build"
  /\ points \in PointsInputs({1})
  /\ rectangulars_vertices_flatten = FloatVector(100, RectStride)
  /\ balls_flatten = FloatVector(200, BallStride)
  /\ scene = NoValue
  /\ need_images \in BOOLEAN
  /\ need_featurized_objects \in BOOLEAN
  /\ need_object_masks \in BOOLEAN
  /\ (binding = "check_for_occlusions" =>
        ~need_images /\ ~need_featurized_objects /\ ~need_object_masks)
  /\ Unset

\* buildUserInputObject alone, on every input up to the bounds.
InitBuild ==
  /\ binding = "check_for_occlusions"
  /\ pc = "build"
  /\ points \in PointsInputs(0..MaxPoints)
  /\ rectangulars_vertices_flatten \in RectInputs(MaxRectLen)
  /\ balls_flatten \in BallInputs(MaxBallsLen)
  /\ scene = NoValue
  /\ need_images = FALSE /\ need_featurized_objects = FALSE /\ need_object_masks = FALSE
  /\ Unset

Throw(kind) == outcome' = kind /\ pc' = "done"

\* buildUserInputObject(points, rectangulars_vertices_flatten, balls_flatten)
BuildUserInputObject ==
  /\ pc = "build"
  /\ LET past == BuildReadsPastEnd(rectangulars_vertices_flatten, balls_flatten)
     IN  IF PointsShapeError(points) # NoValue
           THEN /\ Throw("validation_error")
                /\ UNCHANGED <<user_input, oobRead>>
           ELSE /\ oobRead' = past
                /\ \E gr \in [1..RectInnerBound -> GarbageFloats],
                      gb \in [1..BallStride -> GarbageFloats],
                      crash \in {c \in BOOLEAN : c => past} :
                     IF crash
                       THEN Throw("fault") /\ UNCHANGED user_input
                       ELSE /\ user_input' =
                                 [flattened_point_list |-> FlattenPoints(points, 0),
                                  polygons |-> BuildPolygons(rectangulars_vertices_flatten, 0, gr),
                                  balls |-> BuildBalls(balls_flatten, 0, gb)]
                            /\ pc' = "deserialize"
                            /\ UNCHANGED outcome
  /\ UNCHANGED <<binding, points, rectangulars_vertices_flatten, balls_flatten, scene,
                 mergeResult, simulation, need_images, need_featurized_objects,
                 need_object_masks, numImagesTotal, numScenesTotal, imageSize,
                 numSceneObjects, sceneIndex, heap, oobWrite, maskWrites, capsuleRefs,
                 arrays, result>>

\* Task task = deserialize<Task>(serialized_task): some task, or a decode error.
Deserialize ==
  /\ pc = "deserialize"
  /\ \E t \in TaskScenes, bad \in BOOLEAN :
       IF bad THEN Throw("fault") /\ UNCHANGED scene
       ELSE scene' = t /\ pc' = "merge" /\ UNCHANGED outcome
  /\ UNCHANGED <<binding, points, rectangulars_vertices_flatten, balls_flatten,
                 user_input, oobRead, mergeResult, simulation, need_images,
                 need_featurized_objects, need_object_masks, numImagesTotal,
                 numScenesTotal, imageSize, numSceneObjects, sceneIndex, heap, oobWrite,
                 maskWrites, capsuleRefs, arrays, result>>

\* addUserInputToScene(user_input, keep_space_around_bodies, allow_occlusions, &scene)
AddUserInputToScene ==
  /\ pc = "merge"
  /\ \E merged \in MergeOutputs :
       /\ mergeResult' = merged
       /\ scene' = addUserInputToScene(scene, merged)
  /\ pc' = CASE binding = "magic_ponies" -> "simulate"
             [] binding = "check_for_occlusions" -> "return_occlusions"
             [] OTHER -> "serialize"
  /\ UNCHANGED <<binding, outcome, points, rectangulars_vertices_flatten, balls_flatten,
                 user_input, oobRead, simulation, need_images, need_featurized_objects,
                 need_object_masks, numImagesTotal, numScenesTotal, imageSize,
                 numSceneObjects, sceneIndex, heap, oobWrite, maskWrites, capsuleRefs,
                 arrays, result>>

\* return task.scene.user_input_status == UserInputStatus::HAD_OCCLUSIONS;
ReturnOcclusions ==
  /\ pc = "return_occlusions"
  /\ result' = [hadOcclusions |-> scene.user_input_status = HAD_OCCLUSIONS]
  /\ outcome' = "returned"
  /\ pc' = "done"
  /\ UNCHANGED <<binding, points, rectangulars_vertices_flatten, balls_flatten,
                 user_input, oobRead, scene, mergeResult, simulation, need_images,
                 need_featurized_objects, need_object_masks, numImagesTotal,
                 numScenesTotal, imageSize, numSceneObjects, sceneIndex, heap, oobWrite,
                 maskWrites, capsuleRefs, arrays>>


(***************************************************************************)
(* magic_ponies after the merge                                            *)
(***************************************************************************)

\* auto simulation = simulateTask(task, steps, stride);
SimulateTask ==
  /\ pc = "simulate"
  /\ \E sim \in Simulations(scene.width, scene.height), bad \in BOOLEAN :
       IF bad THEN Throw("fault") /\ UNCHANGED simulation
       ELSE simulation' = sim /\ pc' = "alloc_images" /\ UNCHANGED outcome
  /\ UNCHANGED <<binding, points, rectangulars_vertices_flatten, balls_flatten,
                 user_input, oobRead, scene, mergeResult, need_images,
                 need_featurized_objects, need_object_masks, numImagesTotal,
                 numScenesTotal, imageSize, numSceneObjects, sceneIndex, heap, oobWrite,
                 maskWrites, capsuleRefs, arrays, result>>

\* need_images ? simulation.sceneList.size() : 0
NumImagesTotal(needImages, sim) == IF needImages THEN Len(sim.sceneList) ELSE 0
\* need_featurized_objects ? simulation.sceneList.size() : 0
NumScenesTotal(needFeaturized, sim) == IF needFeaturized THEN Len(sim.sceneList) ELSE 0

\* Lines 205-210: the frame counts, imageSize and new uint8_t[imageSize * numImagesTotal].
AllocImages ==
  /\ pc = "alloc_images"
  /\ numImagesTotal' = NumImagesTotal(need_images, simulation)
  /\ numScenesTotal' = NumScenesTotal(need_featurized_objects, simulation)
  /\ imageSize' = scene.width * scene.height
  /\ \E bad_alloc \in BOOLEAN :
       IF bad_alloc THEN Throw("fault") /\ UNCHANGED heap
       ELSE /\ heap' = [heap EXCEPT !["images"] = NewBuffer(imageSize' * numImagesTotal')]
            /\ pc' = "alloc_masks"
            /\ UNCHANGED outcome
  /\ UNCHANGED <<binding, points, rectangulars_vertices_flatten, balls_flatten,
                 user_input, oobRead, scene, mergeResult, simulation, need_images,
                 need_featurized_objects, need_object_masks, numSceneObjects, sceneIndex,
                 oobWrite, maskWrites, capsuleRefs, arrays, result>>

\* Lines 212-214: numSceneObjects and new uint8_t[imageSize * numImagesTotal * numSceneObjects].
AllocMasks ==
  /\ pc = "alloc_masks"
  /\ numSceneObjects' = getNumObjects(simulation)
  /\ \E bad_alloc \in BOOLEAN :
       IF bad_alloc THEN Throw("fault") /\ UNCHANGED heap
       ELSE /\ heap' = [heap EXCEPT !["masks"] =
                          NewBuffer(imageSize * numImagesTotal * numSceneObjects')]
            /\ pc' = "images"
            /\ UNCHANGED outcome
  /\ UNCHANGED <<binding, points, rectangulars_vertices_flatten, balls_flatten,
                 user_input, oobRead, scene, mergeResult, simulation, need_images,
                 need_featurized_objects, need_object_masks, numImagesTotal,
                 numScenesTotal, imageSize, sceneIndex, oobWrite, maskWrites,
                 capsuleRefs, arrays, result>>

ImageLoopRuns == numImagesTotal > 0 /\ sceneIndex < Len(simulation.sceneList)

\* packedObjectMasks + sceneIndex * numSceneObjects * imageSize
SceneMasksOffset(index, objects, size) == index * objects * size

\* How a step that may have written outside its buffer, or called into the
\* rasterizer or featurizer, can end.
Fates(overflow) == {"ok", "raise"} \cup (IF overflow THEN {"crash"} ELSE {})

\* One iteration of the loop of lines 219-230.
RenderFrame ==
  /\ pc = "images"
  /\ ImageLoopRuns
  /\ LET frame == simulation.sceneList[sceneIndex + 1]
         pixels == renderToPixels(frame)
         imageWriteIndex == sceneIndex * imageSize
         masks == IF need_object_masks
                    THEN renderAllObjectMasksTo(frame, heap["masks"].data,
                           SceneMasksOffset(sceneIndex, numSceneObjects, imageSize))
                    ELSE [data |-> heap["masks"].data, written |-> {}]
         overflow == \/ OutOfBuffer(Region(imageWriteIndex, Len(pixels)), heap["images"].len)
                     \/ OutOfBuffer(masks.written, heap["masks"].len)
     IN  /\ oobWrite' = (oobWrite \/ overflow)
         /\ maskWrites' = Append(maskWrites, masks.written)
         /\ \E fate \in Fates(overflow) :
              IF fate = "ok"
                THEN /\ heap' = [heap EXCEPT
                           !["images"].data = WriteRegion(@, imageWriteIndex, pixels),
                           !["masks"].data = masks.data]
                     /\ sceneIndex' = sceneIndex + 1
                     /\ UNCHANGED <<pc, outcome>>
                ELSE Throw("fault") /\ UNCHANGED <<heap, sceneIndex>>
  /\ UNCHANGED <<binding, points, rectangulars_vertices_flatten, balls_flatten,
                 user_input, oobRead, scene, mergeResult, simulation, need_images,
                 need_featurized_objects, need_object_masks, numImagesTotal,
                 numScenesTotal, imageSize, numSceneObjects, capsuleRefs, arrays, result>>

\* Lines 234-235: new float[numSceneObjects * kObjectFeatureSize * numScenesTotal].
AllocFeatures ==
  /\ pc = "images"
  /\ ~ImageLoopRuns
  /\ \E bad_alloc \in BOOLEAN :
       IF bad_alloc THEN Throw("fault") /\ UNCHANGED heap
       ELSE /\ heap' = [heap EXCEPT !["features"] =
                          NewBuffer(numSceneObjects * kObjectFeatureSize * numScenesTotal)]
            /\ pc' = "featurize"
            /\ UNCHANGED outcome
  /\ UNCHANGED <<binding, points, rectangulars_vertices_flatten, balls_flatten,
                 user_input, oobRead, scene, mergeResult, simulation, need_images,
                 need_featurized_objects, need_object_masks, numImagesTotal,
                 numScenesTotal, imageSize, numSceneObjects, sceneIndex, oobWrite,
                 maskWrites, capsuleRefs, arrays, result>>

\* Lines 236-242: featurizeScene for every frame when features are wanted.
Featurize ==
  /\ pc = "featurize"
  /\ LET st0 == [data |-> heap["features"].data, written |-> {}]
         st == IF numScenesTotal > 0
                 THEN FeaturizeLoop(st0, simulation.sceneList, 1, numSceneObjects)
                 ELSE st0
         overflow == OutOfBuffer(st.written, heap["features"].len)
     IN  /\ oobWrite' = (oobWrite \/ overflow)
         /\ \E fate \in Fates(overflow) :
              IF fate = "ok" \/ numScenesTotal = 0
                THEN /\ heap' = [heap EXCEPT !["features"].data = st.data]
                     /\ pc' = "capsules"
                     /\ UNCHANGED outcome
                ELSE Throw("fault") /\ UNCHANGED heap
  /\ UNCHANGED <<binding, points, rectangulars_vertices_flatten, balls_flatten,
                 user_input, oobRead, scene, mergeResult, simulation, need_images,
                 need_featurized_objects, need_object_masks, numImagesTotal,
                 numScenesTotal, imageSize, numSceneObjects, sceneIndex, maskWrites,
                 capsuleRefs, arrays, result>>

\* Lines 246-258: one capsule per buffer, each held by its local handle.
MakeCapsules ==
  /\ pc = "capsules"
  /\ capsuleRefs' = [b \in Buffers |-> IF b \in CapsuleBuffers THEN 1 ELSE 0]
  /\ pc' = "arrays"
  /\ UNCHANGED <<binding, outcome, points, rectangulars_vertices_flatten, balls_flatten,
                 user_input, oobRead, scene, mergeResult, simulation, need_images,
                 need_featurized_objects, need_object_masks, numImagesTotal,
                 numScenesTotal, imageSize, numSceneObjects, sceneIndex, heap, oobWrite,
                 maskWrites, arrays, result>>

\* The capsule an array keeps alive, if any.
BaseOf(name) ==
  LET b == ArrayBase(name, need_object_masks)
  IN  IF b \in Buffers /\ capsuleRefs[b] > 0 THEN b ELSE NoBase

ArrayLen(name) ==
  CASE name = "images" -> ImagesArrayLen(numImagesTotal, imageSize)
    [] name = "masks" ->
         MasksArrayLen(need_object_masks, numImagesTotal, numSceneObjects, imageSize)
    [] name = "features" -> ObjectsArrayLen(numScenesTotal, numSceneObjects)

\* Lines 260-270: the three arrays, each taking a reference on its base.
MakeArrays ==
  /\ pc = "arrays"
  /\ arrays' = [a \in ArrayNames |->
                  [exists |-> TRUE, len |-> ArrayLen(a),
                   data |-> ArrayData(a, need_object_masks), base |-> BaseOf(a),
                   refs |-> 1]]
  /\ capsuleRefs' = [b \in Buffers |->
                       capsuleRefs[b]
                         + (IF \E a \in ArrayNames : BaseOf(a) = b
                              THEN BaseRefsTaken(b) ELSE 0)]
  /\ pc' = "return"
  /\ UNCHANGED <<binding, outcome, points, rectangulars_vertices_flatten, balls_flatten,
                 user_input, oobRead, scene, mergeResult, simulation, need_images,
                 need_featurized_objects, need_object_masks, numImagesTotal,
                 numScenesTotal, imageSize, numSceneObjects, sceneIndex, heap, oobWrite,
                 maskWrites, result>>

\* Lines 272-277: the tuple is made (it owns the arrays from here on) and the
\* local capsule handles go out of scope.
Return ==
  /\ pc = "return"
  /\ result' = [isSolved |-> simulation.isSolution,
                hadOcclusions |-> hadSimulationOcclusions(simulation),
                objectCount |-> <<numSceneObjects, numSceneObjects>>]
  /\ LET held == {b \in Buffers : capsuleRefs[b] > 0}
     IN  /\ heap' = Free(heap, Released(capsuleRefs, held))
         /\ capsuleRefs' = DecRef(capsuleRefs, held)
  /\ outcome' = "returned"
  /\ pc' = "caller"
  /\ UNCHANGED <<binding, points, rectangulars_vertices_flatten, balls_flatten,
                 user_input, oobRead, scene, mergeResult, simulation, need_images,
                 need_featurized_objects, need_object_masks, numImagesTotal,
                 numScenesTotal, imageSize, numSceneObjects, sceneIndex, oobWrite,
                 maskWrites, arrays>>

\* The caller's runtime drops its reference to one of the returned arrays.
CallerDrops ==
  /\ pc = "caller"
  /\ \E a \in ArrayNames :
       /\ arrays[a].refs > 0
       /\ arrays' = [arrays EXCEPT ![a].refs = @ - 1]
       /\ LET based == {b \in Buffers : b = arrays[a].base}
          IN  /\ heap' = Free(heap, Released(capsuleRefs, based))
              /\ capsuleRefs' = DecRef(capsuleRefs, based)
  /\ UNCHANGED <<binding, pc, outcome, points, rectangulars_vertices_flatten,
                 balls_flatten, user_input, oobRead, scene, mergeResult, simulation,
                 need_images, need_featurized_objects, need_object_masks,
                 numImagesTotal, numScenesTotal, imageSize, numSceneObjects, sceneIndex,
                 oobWrite, maskWrites, result>>

(***************************************************************************)
(* Specifications                                                          *)
(***************************************************************************)

\* add_user_input_to_scene: addUserInputToScene on every scene up to the bounds.
SceneInputs ==
  {MakeScene(d[1], d[2], b, u, s) :
     d \in SceneDims, b \in SeqsUpTo(BodyKinds, MaxBodies),
     u \in SeqsUpTo(BodyKinds, MaxUserBodies), s \in {NO_OCCLUSIONS, HAD_OCCLUSIONS}}

InitMerge ==
  /\ binding = "add_user_input_to_scene"
  /\ pc = "merge"
  /\ points = NoValue
  /\ rectangulars_vertices_flatten = <<>>
  /\ balls_flatten = <<>>
  /\ scene \in SceneInputs
  /\ need_images = FALSE /\ need_featurized_objects = FALSE /\ need_object_masks = FALSE
  /\ Unset

Next ==
  \/ BuildUserInputObject
  \/ Deserialize
  \/ AddUserInputToScene
  \/ ReturnOcclusions
  \/ SimulateTask
  \/ AllocImages
  \/ AllocMasks
  \/ RenderFrame
  \/ AllocFeatures
  \/ Featurize
  \/ MakeCapsules
  \/ MakeArrays
  \/ Return
  \/ CallerDrops

Spec == Init /\ [][Next]_vars

NextBuild == BuildUserInputObject
SpecBuild == InitBuild /\ [][NextBuild]_vars

NextMerge == AddUserInputToScene
SpecMerge == InitMerge /\ [][NextMerge]_vars


(***************************************************************************)
(* Properties                                                              *)
(***************************************************************************)

\* The number of bodies of a list that have a shape.
Shaped(list) == Cardinality({k \in DOMAIN list : list[k].shapeType # UNDEFINED})
ShapedInScene(sc) == Shaped(sc.bodies) + Shaped(sc.user_input_bodies)

FrameCount == Len(simulation.sceneList)
Frame0Objects == IF FrameCount = 0 THEN 0 ELSE ShapedInScene(simulation.sceneList[1])
TaskImageSize == scene.width * scene.height

PointsMalformed ==
  Len(points.shape) # 2 \/ points.shape[2] # 2

\* C1: for rectangulars_vertices_flatten of length 8k the built UserInput has k
\* polygons, polygon p has 4 vertices and vertex v of it is
\* (rect[8p + 2v], rect[8p + 2v + 1]).
C1_PolygonsUseAllEightFloats ==
  (pc = "deserialize" /\ Len(rectangulars_vertices_flatten) % 8 = 0) =>
    LET rect == rectangulars_vertices_flatten
        polys == user_input.polygons
    IN  /\ Len(polys) = Len(rect) \div 8
        /\ \A p \in 0..(Len(polys) - 1) :
             /\ Len(polys[p + 1].vertices) = 4
             /\ \A v \in 0..3 :
                  polys[p + 1].vertices[v + 1]
                    = <<rect[8 * p + 2 * v + 1], rect[8 * p + 2 * v + 2]>>

\* C2: whatever the lengths n and m of the two vectors, the build raises nothing,
\* reads no index >= n or >= m, and yields floor(n/8) polygons and floor(m/3)
\* circles.
C2_PartialStridesDropped ==
  (pc # "build" /\ ~PointsMalformed) =>
    /\ outcome = "running"
    /\ ~oobRead
    /\ Len(user_input.polygons) = Len(rectangulars_vertices_flatten) \div 8
    /\ Len(user_input.balls) = Len(balls_flatten) \div 3

\* Some array the caller still holds points into buffer b.
Referenced(b) == \E a \in ArrayNames : arrays[a].refs > 0 /\ arrays[a].data = b

\* C3: on a call that returns normally each of the three buffers is released
\* exactly once, and only once no returned array refers to it: never twice, never
\* while referenced, and it is released as soon as nothing refers to it (the mask
\* buffer at return when need_object_masks is false).
C3_BuffersReleasedExactlyOnce ==
  /\ \A b \in Buffers : heap[b].releases <= 1
  /\ \A b \in Buffers : heap[b].state = "freed" => ~Referenced(b)
  /\ (binding = "magic_ponies" /\ outcome = "returned") =>
       \A b \in Buffers :
         IF Referenced(b)
           THEN heap[b].state = "live" /\ heap[b].releases = 0
           ELSE heap[b].state = "freed" /\ heap[b].releases = 1

C3_Witness ==
  /\ outcome = "returned"
  /\ need_images /\ ~need_object_masks
  /\ heap["masks"].len > 0
  /\ \A a \in ArrayNames : arrays[a].refs = 0
  /\ \A b \in Buffers : heap[b].releases = 1

\* C4: with F frames, O the objects of frame 0 and S the task scene's area, a
\* returned call has F*S image bytes if need_images, F*O*S mask bytes if also
\* need_object_masks, F*O*featureSize floats if need_featurized_objects, three
\* empty arrays if no flag is set, and always isSolved, hadOcclusions and O twice.
C4_ReturnedSizes ==
  (binding = "magic_ponies" /\ outcome = "returned") =>
    LET F == FrameCount
        O == Frame0Objects
        S == TaskImageSize
    IN  /\ need_images =>
              arrays["images"].len = F * S /\ heap["images"].len = F * S
        /\ (need_images /\ need_object_masks) =>
              arrays["masks"].len = F * O * S /\ heap["masks"].len = F * O * S
        /\ need_featurized_objects =>
              /\ arrays["features"].len = F * O * kObjectFeatureSize
              /\ heap["features"].len = F * O * kObjectFeatureSize
        /\ (~need_images /\ ~need_featurized_objects /\ ~need_object_masks) =>
              \A a \in ArrayNames : arrays[a].len = 0
        /\ result.isSolved = simulation.isSolution
        /\ result.hadOcclusions =
             (F > 0 /\ simulation.sceneList[1].user_input_status = HAD_OCCLUSIONS)
        /\ result.objectCount = <<O, O>>

C4_Witness ==
  /\ outcome = "returned"
  /\ need_images /\ need_object_masks /\ need_featurized_objects
  /\ FrameCount = 2 /\ Frame0Objects = 3 /\ TaskImageSize = 2
  /\ arrays["masks"].len = 12

\* What the mask slot of a body must hold: its standalone render, or zeros when
\* the rasterizer returned another size.
ExpectedMask(sc, body) ==
  LET img == render(MakeScene(sc.width, sc.height, <<body>>, <<>>, NO_OCCLUSIONS)).values
      S == sc.width * sc.height
  IN  IF Len(img) = S THEN img ELSE [k \in 1..S |-> 0]

\* C5: for every frame f rendered so far, the i-th body with a shape (bodies
\* first, user_input_bodies second, UNDEFINED ones skipped) has its standalone
\* render, or zeros on a size mismatch, at f*O*S + i*S: for every slot of the
\* frame's slice (i < O), and, right after the frame was rendered, for every slot
\* inside the buffer.
C5_MaskSlots ==
  (need_images /\ need_object_masks /\ heap["masks"].state = "live") =>
    \A f \in 0..(sceneIndex - 1) :
      LET frame == simulation.sceneList[f + 1]
          all == frame.bodies \o frame.user_input_bodies
          D == {k \in DOMAIN all : all[k].shapeType # UNDEFINED}
          S == TaskImageSize
      IN  \A k \in D :
            LET i == Cardinality({j \in D : j < k})
                off == f * Frame0Objects * S + i * S
            IN  ((i < Frame0Objects \/ f = sceneIndex - 1) /\ off + S <= heap["masks"].len)
                  => \A q \in 1..S :
                       heap["masks"].data[off + q] = ExpectedMask(frame, all[k])[q]

C5_Witness ==
  /\ pc = "caller"
  /\ need_images /\ need_object_masks
  /\ FrameCount = 2 /\ TaskImageSize = 2
  /\ simulation.sceneList[1].bodies = <<Bad, BallA>>
  /\ simulation.sceneList[2].bodies = <<Undef, BallA>>
  /\ heap["masks"].data = <<0, 0, 1, 1, 1, 1, 2, 2>>

\* C6: a points array that is not rank 2, or whose second dimension is not 2,
\* ends the call with a validation error and nothing else has happened: no
\* UserInput, no decoded task, no merge, no simulation, no buffer.
C6_ValidationComesFirst ==
  PointsMalformed =>
    /\ pc \in {"build", "done"}
    /\ pc = "done" => outcome = "validation_error"
    /\ user_input = NoValue
    /\ scene = NoValue
    /\ mergeResult = NoValue
    /\ simulation = NoValue
    /\ \A b \in Buffers : heap[b].state = "none"

C6_Witness ==
  /\ binding = "magic_ponies"
  /\ Len(points.shape) = 2 /\ points.shape[2] = 3
  /\ outcome = "validation_error"

\* C7: the object count is the number of bodies with a shape in bodies plus
\* user_input_bodies of frame 0 (0 without frames), whatever later frames hold,
\* and counting leaves the simulation as it was.
C7_ObjectCount ==
  /\ []((heap["images"].state # "none" /\ pc # "alloc_masks") =>
          numSceneObjects = Frame0Objects)
  /\ [][pc = "alloc_masks" => simulation' = simulation]_vars

C7_Witness ==
  /\ pc = "images"
  /\ FrameCount = 2
  /\ simulation.sceneList[1].bodies = <<Undef, BallA>>
  /\ simulation.sceneList[1].user_input_bodies = <<BallB>>
  /\ simulation.sceneList[2].bodies = <<BallB, BallA>>
  /\ numSceneObjects = 2

\* C8: addUserInputToScene leaves the status NO_OCCLUSIONS exactly when the merge
\* reported clean and HAD_OCCLUSIONS otherwise, makes user_input_bodies the list
\* the merge returned, and leaves bodies, width and height alone.
C8_MergeOverwrites ==
  [][(pc = "merge" /\ pc' # "merge") =>
       /\ (scene'.user_input_status = NO_OCCLUSIONS) <=> mergeResult'.good
       /\ (scene'.user_input_status = HAD_OCCLUSIONS) <=> ~mergeResult'.good
       /\ scene'.user_input_bodies = mergeResult'.bodies
       /\ scene'.bodies = scene.bodies
       /\ scene'.width = scene.width
       /\ scene'.height = scene.height]_vars

C8_Witness ==
  /\ pc = "serialize"
  /\ ~mergeResult.good
  /\ mergeResult.bodies = <<>>
  /\ scene.user_input_bodies = <<>>
  /\ scene.user_input_status = HAD_OCCLUSIONS
  /\ scene.bodies = <<BallA>>

\* C9: every byte mask rendering writes for frame f lies inside that frame's
\* slice [f*O*S, (f+1)*O*S) of the mask buffer.
C9_MaskWritesInsideSlice ==
  \A f \in 0..(Len(maskWrites) - 1) :
    \A o \in maskWrites[f + 1] :
      /\ f * numSceneObjects * TaskImageSize <= o
      /\ o < (f + 1) * numSceneObjects * TaskImageSize

\* C10: a call that faults leaves no allocated buffer behind.
C10_NoBufferLeftOnFault ==
  outcome = "fault" => \A b \in Buffers : heap[b].state # "live"

====
